---- MODULE Spec2Model ----
(***************************************************************************)
(* Model of custom_components/expenses_api/__init__.py: the add_expense    *)
(* service, the split and share computation, the balances summary and the  *)
(* latest-expenses listing of the shared-expenses integration.             *)
(*                                                                         *)
(* Money is counted in whole cents (a Decimal with two fraction digits).   *)
(* The amount entered in the form is counted in tenths of a cent, so that  *)
(* the quantize(Decimal("0.01"), ROUND_HALF_UP) of line 233 does work.     *)
(* Split inputs are counted in percent points, as the input_numbers are.   *)
(***************************************************************************)
EXTENDS Integers, Sequences, FiniteSets, TLC

VARIABLES
    ledger,        \* rows of the `expenses` table, in insertion (id) order
    filters,       \* states of the four filter entities
    latest,        \* expenses_api.latest_expenses: the listed rows
    published,     \* balance entities and expenses_api.settlement
    notification,  \* message of the persistent_notification, "" if none
    preexisting,   \* number of rows the table held when setup() connected
    args,          \* arguments of a direct call of the split helpers
    split,         \* what get_split_percentages returned for args
    shares         \* what compute_shares returned for args

vars == <<ledger, filters, latest, published, notification, preexisting,
          args, split, shares>>

-----------------------------------------------------------------------------
(* Bounds of the model.                                                     *)

\* rows add_expense may append on top of the preexisting ones (Spec)
MaxNew == 2
\* rows add_expense may append to the empty table (SpecPost)
MaxPosts == 2

-----------------------------------------------------------------------------
(* States of Home Assistant entities.                                       *)

\* a numeric entity: missing/unknown, a text that float() and Decimal()
\* reject, or a number
Absent == [kind |-> "absent", val |-> 0]
Text == [kind |-> "text", val |-> 0]
Num(n) == [kind |-> "num", val |-> n]

\* input_datetime states "YYYY-MM-DD HH:MM:SS": a day number and an hour
AbsentDate == [kind |-> "absent", day |-> 0, hh |-> 0]
DateTime(d, h) == [kind |-> "datetime", day |-> d, hh |-> h]

\* a NULL date column / date_value None
NoDate == 0

\* strings the code trims and lower-cases are sequences of characters
Str_unknown == <<"u", "n", "k", "n", "o", "w", "n">>
Str_Unknown == <<"U", "n", "k", "n", "o", "w", "n">>
Str_andre == <<"a", "n", "d", "r", "e">>
Str_helena == <<"h", "e", "l", "e", "n", "a">>
Str_Andre == <<"A", "n", "d", "r", "e">>
Str_Helena == <<"H", "e", "l", "e", "n", "a">>
Str_helena_padded == <<" ", "h", "e", "l", "e", "n", "a", " ">>
Str_Andre_padded == <<"A", "n", "d", "r", "e", " ">>
Str_charlie == <<"c", "h", "a", "r", "l", "i", "e">>
Str_All == <<"A", "l", "l">>
Str_all == <<"a", "l", "l">>
Str_empty == <<>>

\* safe_state for a numeric entity or a date entity
safe_state(s, default) ==
    IF s.kind = "absent" THEN default ELSE s

\* safe_state for a text entity: None, "unknown" and "" give the default
safe_state_str(s, default) ==
    IF s = Str_empty \/ s = Str_unknown THEN default ELSE s

\* str.lower() on the characters the model uses
LowerChar(c) ==
    CASE c = "A" -> "a"
      [] c = "H" -> "h"
      [] c = "U" -> "u"
      [] c = "C" -> "c"
      [] OTHER -> c

Lower(s) == [i \in 1..Len(s) |-> LowerChar(s[i])]

RECURSIVE LStrip(_)
LStrip(s) ==
    IF s # <<>> /\ Head(s) = " " THEN LStrip(Tail(s)) ELSE s

RECURSIVE RStrip(_)
RStrip(s) ==
    IF s # <<>> /\ s[Len(s)] = " " THEN RStrip(SubSeq(s, 1, Len(s) - 1)) ELSE s

\* str.strip()
Strip(s) == RStrip(LStrip(s))

\* datetime.fromisoformat(s.split(" ")[0]).date(): the time of day is dropped
DateOf(s) == IF s.kind = "absent" THEN NoDate ELSE s.day

-----------------------------------------------------------------------------
(* Decimal arithmetic.                                                      *)

Abs(x) == IF x < 0 THEN -x ELSE x

Sign(x) == IF x > 0 THEN 1 ELSE IF x < 0 THEN -1 ELSE 0

\* ROUND_HALF_UP of the number n/d + e to an integer, where d > 0 and e is
\* an error far smaller than 1/(2d) of which only the sign is known.
\* Exactly halfway, ROUND_HALF_UP rounds away from zero.
RoundHalfUp(n, d, e) ==
    LET lo == n \div d
        r == n % d
    IN IF 2 * r < d THEN lo
       ELSE IF 2 * r > d THEN lo + 1
       ELSE IF e > 0 THEN lo + 1
       ELSE IF e < 0 THEN lo
       ELSE IF n >= 0 THEN lo + 1 ELSE lo

\* Decimal(str(x)).quantize(Decimal("0.01"), ROUND_HALF_UP) of an amount
\* given in tenths of a cent
QuantizeCents(tenths) == RoundHalfUp(tenths, 10, 0)

-----------------------------------------------------------------------------
(* Split helpers.                                                           *)

\* default_andre = 0.6, default_helena = 0.4, in percent points
default_andre == 60
default_helena == 40

\* A float fraction as compute_shares sees it through Decimal(str(x)):
\* the rational num/den (den > 0) it approximates, and the sign of
\* Decimal(str(x)) - num/den.
Frac(n, d, e) ==
    IF d < 0 THEN [num |-> -n, den |-> -d, err |-> e]
             ELSE [num |-> n, den |-> d, err |-> e]

\* Sign of the rounding error that IEEE-754 double arithmetic leaves in
\* (a/100.0) / (a/100.0 + h/100.0) and (h/100.0) / (a/100.0 + h/100.0),
\* as printed by str(), for the percent points <<a, h>> of the model.
FloatErr ==
    <<60, 40>> :> <<0, 0>> @@
    <<60, 0>> :> <<0, 0>> @@
    <<60, 30>> :> <<1, 1>> @@
    <<60, 50>> :> <<-1, -1>> @@
    <<60, 100>> :> <<-1, 0>> @@
    <<-50, 40>> :> <<1, -1>> @@
    <<-50, 0>> :> <<0, 0>> @@
    <<-50, 30>> :> <<0, 1>> @@
    <<-50, 100>> :> <<0, 0>> @@
    <<0, 40>> :> <<0, 0>> @@
    <<0, 30>> :> <<0, 0>> @@
    <<0, 50>> :> <<0, 0>> @@
    <<0, 100>> :> <<0, 0>> @@
    <<10, 40>> :> <<0, 0>> @@
    <<10, 0>> :> <<0, 0>> @@
    <<10, 30>> :> <<0, -1>> @@
    <<10, 50>> :> <<1, 1>> @@
    <<10, 100>> :> <<1, 1>> @@
    <<50, 40>> :> <<1, 1>> @@
    <<50, 0>> :> <<0, 0>> @@
    <<50, 30>> :> <<0, -1>> @@
    <<50, 50>> :> <<0, 0>> @@
    <<50, 100>> :> <<-1, -1>>

\* float(state) / 100.0 guarded by try/except, then the default if None
PctPoints(state, default) ==
    IF state.kind = "num" THEN state.val ELSE default

\* get_split_percentages: (andre_pct, helena_pct, total_pct)
get_split_percentages(andre_state, helena_state) ==
    LET a == PctPoints(safe_state(andre_state, Absent), default_andre)
        h == PctPoints(safe_state(helena_state, Absent), default_helena)
    IN IF a + h = 0
       THEN [andre_pct |-> Frac(default_andre, 100, 0),
             helena_pct |-> Frac(default_helena, 100, 0),
             total_pct |-> 0]
       ELSE [andre_pct |-> Frac(a, a + h, FloatErr[<<a, h>>][1]),
             helena_pct |-> Frac(h, a + h, FloatErr[<<a, h>>][2]),
             total_pct |-> 1]

\* (cost * Decimal(str(pct))).quantize(Decimal("0.01"), ROUND_HALF_UP)
QuantizeShare(cost, pct) ==
    RoundHalfUp(cost * pct.num, pct.den, pct.err * Sign(cost))

ZeroDivisionError == [status |-> "ZeroDivisionError", andre |-> 0, helena |-> 0]

\* compute_shares: (andre_share, helena_share), or the exception of the
\* float division pct / total_pct
compute_shares(cost, andre_pct, helena_pct, total_pct) ==
    IF total_pct = 0 THEN ZeroDivisionError
    ELSE LET andre_share == QuantizeShare(cost, andre_pct)
             helena_share == QuantizeShare(cost, helena_pct)
             diff == cost - (andre_share + helena_share)
         IN [status |-> "ok",
             andre |-> IF diff # 0 THEN andre_share + diff ELSE andre_share,
             helena |-> helena_share]

-----------------------------------------------------------------------------
(* The expenses table.                                                      *)

\* safe_state for a select entity whose options are plain words
safe_state_opt(s, default) ==
    IF s = "" \/ s = "unknown" THEN default ELSE s

\* the VALUES of an INSERT that passes the cost where andre_val belongs
ExpenseRow_CostForAndre(cost, category, date_value, andre_val, helena_val, paid_by_norm) ==
    [date |-> date_value, category |-> category, cost |-> cost,
     andre |-> cost, helena |-> helena_val, paid_by |-> paid_by_norm]

\* the VALUES of the INSERT; the description column plays no part in any
\* computation and is left out
ExpenseRow(cost, category, date_value, andre_val, helena_val, paid_by_norm) ==
    [date |-> date_value, category |-> category, cost |-> cost,
     andre |-> andre_val, helena |-> helena_val, paid_by |-> paid_by_norm]

\* the INSERT: the table assigns the next id
Insert(rows, values) ==
    Append(rows, [id |-> Len(rows) + 1] @@ values)

RECURSIVE SumAndre(_)
SumAndre(rows) ==
    IF rows = <<>> THEN 0 ELSE Head(rows).andre + SumAndre(Tail(rows))

RECURSIVE SumHelena(_)
SumHelena(rows) ==
    IF rows = <<>> THEN 0 ELSE Head(rows).helena + SumHelena(Tail(rows))

-----------------------------------------------------------------------------
(* update_latest_expenses.                                                  *)

\* LIMIT of the listing query
ListLimit == 20

\* the WHERE clause the code builds from the filter entities
Selected(r, flt) ==
    LET paid_by == safe_state_str(flt.paid_by, Str_All)
        paid_by_norm == Lower(Strip(paid_by))
        category == safe_state_opt(flt.category, "All")
        start_date == DateOf(flt.start_date)
        end_date == DateOf(flt.end_date)
    IN /\ (paid_by_norm # Str_All) => (Lower(r.paid_by) = paid_by_norm)
       /\ (category # "All") => (r.category = category)
       /\ (start_date # NoDate) => (r.date # NoDate /\ r.date >= start_date)
       /\ (end_date # NoDate) => (r.date # NoDate /\ r.date <= end_date)

\* ORDER BY date DESC, id DESC; PostgreSQL puts NULL dates first when
\* the order is descending
ListedBefore(r, o) ==
    \/ r.date = NoDate /\ o.date # NoDate
    \/ r.date # NoDate /\ o.date # NoDate /\ r.date > o.date
    \/ r.date = o.date /\ r.id > o.id

\* The rows set as attribute "expenses" of expenses_api.latest_expenses:
\* the selected rows in listing order, at most ListLimit of them.  A row's
\* place in the order is one more than the number of rows listed before it.
update_latest_expenses(rows, flt) ==
    LET sel == {i \in 1..Len(rows) : Selected(rows[i], flt)}
        place == [i \in sel |->
                    1 + Cardinality({j \in sel : ListedBefore(rows[j], rows[i])})]
        n == IF Cardinality(sel) < ListLimit THEN Cardinality(sel) ELSE ListLimit
    IN [k \in 1..n |-> rows[CHOOSE i \in sel : place[i] = k]]

-----------------------------------------------------------------------------
(* update_balances.                                                         *)

\* the sums taken over the listed page instead of the whole table
QueryTotals_ListedPage(rows) ==
    [andre |-> SumAndre(update_latest_expenses(rows, filters)),
     helena |-> SumHelena(update_latest_expenses(rows, filters))]

\* SELECT COALESCE(SUM(andre),0), COALESCE(SUM(helena),0) FROM expenses
QueryTotals(rows) ==
    [andre |-> SumAndre(rows), helena |-> SumHelena(rows)]

\* the settlement sentence with the two debtors exchanged
Settlement_Exchanged(net) ==
    IF net > 0 THEN "Andre owes Helena"
    ELSE IF net < 0 THEN "Helena owes Andre"
    ELSE "All settled up"

\* the settlement sentence, without the amount
Settlement(net) ==
    IF net > 0 THEN "Helena owes Andre"
    ELSE IF net < 0 THEN "Andre owes Helena"
    ELSE "All settled up"

NotPublished ==
    [balance_andre |-> 0, balance_nocas |-> 0, settlement |-> "",
     owed |-> 0, net |-> 0]

\* The states update_balances sets.  The sums are Decimals of whole cents;
\* float() and round(x, 2) keep the cent value of such a number.
update_balances(rows) ==
    LET andre_total == QueryTotals(rows).andre
        helena_total == QueryTotals(rows).helena
        net == andre_total
    IN [balance_andre |-> andre_total, balance_nocas |-> helena_total,
        settlement |-> Settlement(net),
        owed |-> IF Settlement(net) = "All settled up" THEN 0 ELSE Abs(net),
        net |-> net]

-----------------------------------------------------------------------------
(* handle_add_expense.                                                      *)

\* the outcome of a call that raised: message stands for str(e), which the
\* except block logs and sends to persistent_notification
Failure(message) ==
    [error |-> message, cost |-> 0, andre_val |-> 0, helena_val |-> 0,
     paid_by_norm |-> <<>>]

KnownPayer(paid_by_norm) ==
    paid_by_norm = Str_andre \/ paid_by_norm = Str_helena

\* andre_val, helena_val for a known payer
SignedAmounts(paid_by_norm, andre_share, helena_share) ==
    IF paid_by_norm = Str_andre
    THEN [andre |-> helena_share, helena |-> -helena_share]
    ELSE [andre |-> -andre_share, helena |-> andre_share]

\* The body of the try block down to the invariant check: the values to
\* insert, or the message of the exception that was raised.
PostExpense(amount, paid_by, split_andre, split_helena) ==
    LET amt == safe_state(amount, Num(0))
    IN IF amt.kind = "text" THEN Failure("InvalidOperation")
       ELSE
       LET cost == QuantizeCents(amt.val)
           pct == get_split_percentages(split_andre, split_helena)
           sh == compute_shares(cost, pct.andre_pct, pct.helena_pct, pct.total_pct)
           paid_by_norm == Lower(Strip(safe_state_str(paid_by, Str_Unknown)))
       IN IF sh.status = "ZeroDivisionError" THEN Failure("float division by zero")
          ELSE IF ~KnownPayer(paid_by_norm) THEN Failure("Invalid payer selected")
          ELSE LET v == SignedAmounts(paid_by_norm, sh.andre, sh.helena)
               IN IF v.andre + v.helena # 0 THEN Failure("Ledger invariant violated")
                  ELSE [error |-> "", cost |-> cost, andre_val |-> v.andre,
                        helena_val |-> v.helena, paid_by_norm |-> paid_by_norm]

\* The service add_expense.
HandleAddExpense(amount, paid_by, split_andre, split_helena, date, category) ==
    LET res == PostExpense(amount, paid_by, split_andre, split_helena)
        inserted == Insert(ledger,
                       ExpenseRow(res.cost, safe_state_opt(category, "Other"),
                                  DateOf(date), res.andre_val, res.helena_val,
                                  res.paid_by_norm))
    IN /\ UNCHANGED <<filters, preexisting, args, split, shares>>
       /\ IF res.error = ""
          THEN /\ ledger' = inserted
               /\ published' = update_balances(inserted)
               /\ latest' = update_latest_expenses(inserted, filters)
               /\ UNCHANGED notification
          ELSE /\ notification' = res.error
               /\ UNCHANGED <<ledger, latest, published>>

\* The service refresh_balances, and on_ha_started.
RefreshBalances ==
    /\ published' = update_balances(ledger)
    /\ UNCHANGED <<ledger, filters, latest, notification, preexisting,
                   args, split, shares>>

\* The service refresh_latest_expenses.
RefreshLatestExpenses ==
    /\ latest' = update_latest_expenses(ledger, filters)
    /\ UNCHANGED <<ledger, filters, published, notification, preexisting,
                   args, split, shares>>

\* state_change_listener, for a change of one of the four filter entities
StateChangeListener(entity, value) ==
    /\ filters[entity] # value
    /\ filters' = [filters EXCEPT ![entity] = value]
    /\ UNCHANGED <<ledger, published, notification, preexisting,
                   args, split, shares>>
    /\ latest' = update_latest_expenses(ledger, [filters EXCEPT ![entity] = value])

-----------------------------------------------------------------------------
(* Direct calls of the split helpers.                                       *)

NoArgs == [cost |-> 0, split_andre |-> Absent, split_helena |-> Absent]

NotResolved ==
    [done |-> FALSE, andre_pct |-> Frac(0, 1, 0), helena_pct |-> Frac(0, 1, 0),
     total_pct |-> 0]

NotComputed == [status |-> "none", andre |-> 0, helena |-> 0]

CallGetSplitPercentages ==
    /\ ~split.done
    /\ split' = [done |-> TRUE] @@
                get_split_percentages(args.split_andre, args.split_helena)
    /\ UNCHANGED <<ledger, filters, latest, published, notification,
                   preexisting, args, shares>>

CallComputeShares ==
    /\ split.done
    /\ shares.status = "none"
    /\ shares' = compute_shares(args.cost, split.andre_pct, split.helena_pct,
                                split.total_pct)
    /\ UNCHANGED <<ledger, filters, latest, published, notification,
                   preexisting, args, split>>

-----------------------------------------------------------------------------
(* Inputs of the model.                                                     *)

\* rows found in the table at setup: twenty rows written by the service
Ledger20 ==
    [i \in 1..20 |->
        [id |-> i, date |-> 1 + (i % 2),
         category |-> IF i % 3 = 0 THEN "Other" ELSE "Food",
         cost |-> 1000,
         andre |-> IF i % 2 = 0 THEN 400 ELSE -600,
         helena |-> IF i % 2 = 0 THEN -400 ELSE 600,
         paid_by |-> IF i % 2 = 0 THEN Str_andre ELSE Str_helena]]

\* rows found in the table at setup: one of them edited by hand
LedgerEdited ==
    << [id |-> 1, date |-> NoDate, category |-> "Food", cost |-> 1000,
        andre |-> 500, helena |-> -400, paid_by |-> Str_andre],
       [id |-> 2, date |-> 1, category |-> "Other", cost |-> 500,
        andre |-> -300, helena |-> 300, paid_by |-> Str_helena] >>

InitialLedgers == {<<>>, LedgerEdited, Ledger20}

FilterPaidByStates == {Str_All, Str_Andre}
FilterCategoryStates == {"All", "Food"}
FilterStartStates == {AbsentDate, DateTime(2, 0)}
FilterEndStates == {AbsentDate, DateTime(1, 12)}

FilterStates ==
    [paid_by : FilterPaidByStates, category : FilterCategoryStates,
     start_date : FilterStartStates, end_date : FilterEndStates]

FilterValues(entity) ==
    CASE entity = "paid_by" -> FilterPaidByStates
      [] entity = "category" -> FilterCategoryStates
      [] entity = "start_date" -> FilterStartStates
      [] entity = "end_date" -> FilterEndStates

\* form inputs of Spec
ViewAmounts == {Num(9995)}
ViewPayers == {Str_Andre_padded, Str_Helena, Str_charlie}
ViewSplits == {Absent}
ViewDates == {DateTime(1, 9), DateTime(2, 18)}
ViewCategories == {"Food", "Other"}

\* form inputs of SpecPost
PostAmounts == {Absent, Text, Num(-9995), Num(50), Num(9995)}
PostPayers == {Str_Andre_padded, Str_helena_padded, Str_charlie}
PostSplitsAndre == {Absent, Num(-50), Num(0), Num(50)}
PostSplitsHelena == {Text, Num(0), Num(50)}
PostDates == {AbsentDate}
PostCategories == {"Food"}

\* arguments of SpecPure
PureCosts == {0, 2, 4, 5, 1000}
PureSplitsAndre == {Absent, Text, Num(-50), Num(0), Num(10), Num(50)}
PureSplitsHelena == {Absent, Text, Num(0), Num(30), Num(50), Num(100)}

-----------------------------------------------------------------------------
(* Specifications.                                                          *)

\* the integration over a table that already holds rows
Init ==
    /\ ledger \in InitialLedgers
    /\ filters \in FilterStates
    /\ latest = update_latest_expenses(ledger, filters)
    /\ published = NotPublished
    /\ notification = ""
    /\ preexisting = Len(ledger)
    /\ args = NoArgs
    /\ split = NotResolved
    /\ shares = NotComputed

AddExpense ==
    /\ Len(ledger) < preexisting + MaxNew
    /\ \E amount \in ViewAmounts, paid_by \in ViewPayers,
          split_andre \in ViewSplits, split_helena \in ViewSplits,
          date \in ViewDates, category \in ViewCategories :
          HandleAddExpense(amount, paid_by, split_andre, split_helena,
                           date, category)

FilterChanged ==
    \E entity \in {"paid_by", "category", "start_date", "end_date"} :
        \E value \in FilterValues(entity) : StateChangeListener(entity, value)

Next ==
    \/ AddExpense
    \/ RefreshBalances
    \/ RefreshLatestExpenses
    \/ FilterChanged

Spec == Init /\ [][Next]_vars

\* the add_expense service on an empty table, over all form inputs
InitPost ==
    /\ ledger = <<>>
    /\ filters = [paid_by |-> Str_empty, category |-> "",
                  start_date |-> AbsentDate, end_date |-> AbsentDate]
    /\ latest = update_latest_expenses(ledger, filters)
    /\ published = NotPublished
    /\ notification = ""
    /\ preexisting = 0
    /\ args = NoArgs
    /\ split = NotResolved
    /\ shares = NotComputed

PostAddExpense ==
    /\ Len(ledger) < MaxPosts
    /\ \E amount \in PostAmounts, paid_by \in PostPayers,
          split_andre \in PostSplitsAndre, split_helena \in PostSplitsHelena,
          date \in PostDates, category \in PostCategories :
          HandleAddExpense(amount, paid_by, split_andre, split_helena,
                           date, category)

NextPost ==
    \/ PostAddExpense
    \/ RefreshBalances

SpecPost == InitPost /\ [][NextPost]_vars

\* get_split_percentages and compute_shares called on their own
InitPure ==
    /\ ledger = <<>>
    /\ filters = [paid_by |-> Str_empty, category |-> "",
                  start_date |-> AbsentDate, end_date |-> AbsentDate]
    /\ latest = <<>>
    /\ published = NotPublished
    /\ notification = ""
    /\ preexisting = 0
    /\ args \in [cost : PureCosts, split_andre : PureSplitsAndre,
                 split_helena : PureSplitsHelena]
    /\ split = NotResolved
    /\ shares = NotComputed

NextPure ==
    \/ CallGetSplitPercentages
    \/ CallComputeShares

SpecPure == InitPure /\ [][NextPure]_vars

-----------------------------------------------------------------------------
(* Properties.                                                              *)

Reverse(s) == [i \in 1..Len(s) |-> s[Len(s) + 1 - i]]

NormalisedPayer(paid_by) == Lower(Strip(safe_state_str(paid_by, Str_Unknown)))

\* C1: every entry in the ledger has amountA + amountB = 0 to the cent,
\* whatever add_expense calls were made and whether they succeeded or
\* failed, and so the totals over the ledger add up to zero.
C1_EntriesZeroSum ==
    /\ \A i \in 1..Len(ledger) : ledger[i].andre + ledger[i].helena = 0
    /\ SumAndre(ledger) + SumHelena(ledger) = 0

\* C1 witness: after a failed call, two entries with non-zero amounts are
\* in the ledger, one paid by each party.
C1_Witness ==
    /\ notification # ""
    /\ Len(ledger) = 2
    /\ ledger[1].paid_by = Str_andre /\ ledger[1].andre > 0
    /\ ledger[2].paid_by = Str_helena /\ ledger[2].helena > 0

\* a split input that is not a negative number
NotNegative(state) == state.kind = "num" => state.val >= 0

\* C2: for every cost and every split resolved from inputs that are not
\* negative, compute_shares returns two shares that add up to the cost
\* exactly, and party B's share is the round-half-up of cost * shareB (the
\* drift went to party A).
C2_SharesReconcile ==
    ( /\ shares.status # "none"
      /\ NotNegative(args.split_andre)
      /\ NotNegative(args.split_helena) ) =>
        /\ shares.status = "ok"
        /\ shares.andre + shares.helena = args.cost
        /\ shares.helena = QuantizeShare(args.cost, split.helena_pct)

\* C3: an add_expense call with a numeric amount, split inputs that are not
\* negative and a payer that is neither party fails with the invalid-payer error, which the notification
\* receives, and leaves ledger and published balances as they were.
C3_InvalidPayerRejected ==
    [][\A amount \in PostAmounts, paid_by \in PostPayers,
          split_andre \in PostSplitsAndre, split_helena \in PostSplitsHelena,
          date \in PostDates, category \in PostCategories :
          ( /\ HandleAddExpense(amount, paid_by, split_andre, split_helena,
                                date, category)
            /\ amount.kind # "text"
            /\ NotNegative(split_andre)
            /\ NotNegative(split_helena)
            /\ ~KnownPayer(NormalisedPayer(paid_by)) )
          => /\ notification' = "Invalid payer selected"
             /\ ledger' = ledger
             /\ published' = published]_vars

\* C4: with both split inputs 0 the split is the default 60/40: a call with
\* a numeric amount and a known payer records the entry that the default
\* split gives, e.g. 10.00 paid by A is recorded as +4.00 / -4.00.
C4_ZeroSplitUsesDefaults ==
    [][\A amount \in PostAmounts, paid_by \in PostPayers,
          date \in PostDates, category \in PostCategories :
          ( /\ HandleAddExpense(amount, paid_by, Num(0), Num(0), date, category)
            /\ amount.kind # "text"
            /\ KnownPayer(NormalisedPayer(paid_by)) )
          => LET cost == QuantizeCents(safe_state(amount, Num(0)).val)
                 shareB == RoundHalfUp(cost * default_helena, 100, 0)
                 shareA == cost - shareB
                 new == ledger'[Len(ledger')]
             IN /\ Len(ledger') = Len(ledger) + 1
                /\ NormalisedPayer(paid_by) = Str_andre
                      => new.andre = shareB /\ new.helena = -shareB
                /\ NormalisedPayer(paid_by) = Str_helena
                      => new.andre = -shareA /\ new.helena = shareA
                /\ (cost = 1000 /\ NormalisedPayer(paid_by) = Str_andre)
                      => new.andre = 400 /\ new.helena = -400]_vars

\* the fraction a raw split input stands for before normalisation: the
\* default if it is absent, unparseable or negative
C5_Intended(state, default) ==
    IF state.kind = "num" /\ state.val >= 0 THEN state.val ELSE default

C5_SameFraction(pct, n, d) == pct.num * d = n * pct.den

C5_InUnitRange(pct) == 0 <= pct.num /\ pct.num <= pct.den

\* C5: each raw split input is handled on its own: an absent, unparseable
\* or negative input is replaced by that party's default, a valid input of
\* the other party is honored, and both resolved shares lie in [0, 1].
C5_SplitPerParty ==
    split.done =>
        LET a == C5_Intended(args.split_andre, default_andre)
            h == C5_Intended(args.split_helena, default_helena)
        IN /\ C5_InUnitRange(split.andre_pct)
           /\ C5_InUnitRange(split.helena_pct)
           /\ IF a + h = 0
              THEN /\ C5_SameFraction(split.andre_pct, default_andre, 100)
                   /\ C5_SameFraction(split.helena_pct, default_helena, 100)
              ELSE /\ C5_SameFraction(split.andre_pct, a, a + h)
                   /\ C5_SameFraction(split.helena_pct, h, a + h)

\* C6: an add_expense call whose amount is negative or not a number ends
\* in an error and appends nothing to the ledger.
C6_BadAmountRejected ==
    [][\A amount \in PostAmounts, paid_by \in PostPayers,
          split_andre \in PostSplitsAndre, split_helena \in PostSplitsHelena,
          date \in PostDates, category \in PostCategories :
          ( /\ HandleAddExpense(amount, paid_by, split_andre, split_helena,
                                date, category)
            /\ \/ amount.kind = "text"
               \/ amount.kind = "num" /\ amount.val < 0 )
          => /\ ledger' = ledger
             /\ notification' # ""]_vars

\* C7: over a ledger whose totals do not add up to zero the summary fails,
\* so no settlement is ever published for such a ledger.
C7_NoSummaryOfBrokenLedger ==
    SumAndre(ledger) + SumHelena(ledger) # 0 => published.settlement = ""

\* C8: the published balances and net are the sums of amountA and amountB
\* over all persisted entries, the one just inserted included, whatever the
\* display filters and the listing limit are and in whatever order the
\* entries are summed.
C8_BalancesOverAllEntries ==
    published.settlement # "" =>
        /\ published.balance_andre = SumAndre(ledger)
        /\ published.balance_nocas = SumHelena(ledger)
        /\ published.net = SumAndre(ledger)
        /\ published.balance_andre = SumAndre(Reverse(ledger))
        /\ published.balance_nocas = SumHelena(Reverse(ledger))

\* C8 witness: an expense was added to a table of more than ListLimit rows
\* while the filters hide some rows, and the balances were published.
C8_Witness ==
    /\ published.settlement # ""
    /\ Len(ledger) > preexisting
    /\ Len(ledger) > ListLimit
    /\ Len(latest) < ListLimit
    /\ filters.category = "Food"
    /\ filters.paid_by = Str_Andre

\* C9: every summary that is published has the narrative that the sign of
\* net = totalA decides, with abs(net) as the amount, and publishing again
\* over an unchanged ledger changes nothing.
C9_NarrativeBySign ==
    [][published'.settlement # "" =>
          /\ published'.net = SumAndre(ledger')
          /\ published'.net > 0 =>
                 /\ published'.settlement = "Helena owes Andre"
                 /\ published'.owed = published'.net
          /\ published'.net < 0 =>
                 /\ published'.settlement = "Andre owes Helena"
                 /\ published'.owed = -published'.net
          /\ published'.net = 0 => published'.settlement = "All settled up"
          /\ (published.settlement # "" /\ ledger' = ledger)
                 => published' = published]_vars

\* C9 witness: a summary in which Helena owes Andre a positive amount was
\* published after an expense was added.
C9_Witness ==
    /\ published.settlement = "Helena owes Andre"
    /\ published.owed > 0
    /\ Len(ledger) > preexisting

C10_NoPayerFilter ==
    Lower(Strip(safe_state_str(filters.paid_by, Str_All))) = Str_all

C10_Matches(r) ==
    /\ safe_state_opt(filters.category, "All") # "All"
          => r.category = filters.category
    /\ DateOf(filters.start_date) # NoDate
          => r.date # NoDate /\ r.date >= DateOf(filters.start_date)
    /\ DateOf(filters.end_date) # NoDate
          => r.date # NoDate /\ r.date <= DateOf(filters.end_date)

\* C10: when the payer filter is 'All' the listing is not restricted by
\* payer: once an expense has been added, it holds the entries of either
\* payer that pass the category and date filters, up to the limit, by date
\* descending then id descending.
C10_AllListsEitherPayer ==
    (C10_NoPayerFilter /\ Len(ledger) > preexisting) =>
        LET matching == {i \in 1..Len(ledger) : C10_Matches(ledger[i])}
        IN /\ Len(latest) = IF Cardinality(matching) < ListLimit
                            THEN Cardinality(matching) ELSE ListLimit
           /\ \A k \in 1..Len(latest) :
                 \E i \in matching : latest[k] = ledger[i]
           /\ \A k \in 1..(Len(latest) - 1) :
                 ListedBefore(latest[k], latest[k + 1])

====
